---- MODULE Spec2Model ----
(***************************************************************************)
(* Model of src/content/accept_encoding.rs (http-types): the              *)
(* AcceptEncoding aggregate, its parser from_headers, its renderer value, *)
(* apply / to_header_values and the three iterators.                      *)
(*                                                                         *)
(* Header text is a sequence of one-character strings, so that trimming,  *)
(* splitting on ',' and rendering are computed character by character.    *)
(* EncodingProposal, Encoding and Headers live in other files of the      *)
(* crate; they are modelled from the specification (sections 3, 4.1, 6).  *)
(***************************************************************************)
EXTENDS Integers, Sequences, FiniteSets, TLC

\* ---------------------------------------------------------------- bounds
MaxEntries == 2

MaxPieces == 3

MaxLines == 2

\* ------------------------------------------------------ character helpers
Whitespace == {" ", "\t"}

Digits == <<"0", "1", "2", "3", "4", "5", "6", "7", "8", "9">>

UpperCase == <<"A", "B", "C", "D", "E", "F", "G", "H", "I", "J", "K", "L", "M",
               "N", "O", "P", "Q", "R", "S", "T", "U", "V", "W", "X", "Y", "Z">>

LowerCase == <<"a", "b", "c", "d", "e", "f", "g", "h", "i", "j", "k", "l", "m",
               "n", "o", "p", "q", "r", "s", "t", "u", "v", "w", "x", "y", "z">>

Range(s) == {s[i] : i \in DOMAIN s}

IsDigit(c) == c \in Range(Digits)

DigitValue(c) == (CHOOSE i \in DOMAIN Digits : Digits[i] = c) - 1

ToLowerChar(c) ==
    IF c \in Range(UpperCase)
    THEN LowerCase[CHOOSE i \in DOMAIN UpperCase : UpperCase[i] = c]
    ELSE c

to_ascii_lowercase(s) == [i \in DOMAIN s |-> ToLowerChar(s[i])]

\* str::trim: drop leading and trailing whitespace.
RECURSIVE trim_start(_)
trim_start(s) ==
    IF s # <<>> /\ Head(s) \in Whitespace THEN trim_start(Tail(s)) ELSE s

RECURSIVE trim_end(_)
trim_end(s) ==
    IF s # <<>> /\ s[Len(s)] \in Whitespace
    THEN trim_end(SubSeq(s, 1, Len(s) - 1))
    ELSE s

trim(s) == trim_end(trim_start(s))

\* Index of the first occurrence of character c in s, 0 when there is none.
find(s, c) ==
    IF \E i \in DOMAIN s : s[i] = c
    THEN CHOOSE i \in DOMAIN s : s[i] = c /\ \A j \in 1..(i - 1) : s[j] # c
    ELSE 0

\* str::split(c): the pieces between occurrences of c; the empty string
\* splits into one empty piece.
RECURSIVE split(_, _)
split(s, c) ==
    LET i == find(s, c)
    IN IF i = 0
       THEN <<s>>
       ELSE <<SubSeq(s, 1, i - 1)>> \o split(SubSeq(s, i + 1, Len(s)), c)

\* Concatenation of a sequence of texts.
RECURSIVE concat(_)
concat(ss) == IF ss = <<>> THEN <<>> ELSE Head(ss) \o concat(Tail(ss))

\* ------------------------------------------- Encoding / EncodingProposal
\* (crate::content::{Encoding, EncodingProposal}; spec sections 3 and 4.1)

KnownTags == {"Gzip", "Deflate", "Brotli", "Identity", "Compress"}

KnownToken(tag) ==
    CASE tag = "Gzip" -> <<"g", "z", "i", "p">>
      [] tag = "Deflate" -> <<"d", "e", "f", "l", "a", "t", "e">>
      [] tag = "Brotli" -> <<"b", "r">>
      [] tag = "Identity" -> <<"i", "d", "e", "n", "t", "i", "t", "y">>
      [] tag = "Compress" -> <<"c", "o", "m", "p", "r", "e", "s", "s">>

Known(tag) == [tag |-> tag, text |-> <<>>]

Other(text) == [tag |-> "Other", text |-> text]

\* Characters an encoding identifier is made of (after lowercasing).
TokenChars == Range(LowerCase) \cup Range(Digits) \cup {"-"}

IsToken(s) == s # <<>> /\ \A i \in DOMAIN s : s[i] \in TokenChars

\* Identifier name -> Encoding: case-insensitive match against the known
\* set, anything else that is a token becomes the extension variant with the
\* lowercased text.  "NoEncoding" when the name is no identifier at all.
NoEncoding == [tag |-> "NoEncoding", text |-> <<>>]

EncodingFromStr(name) ==
    LET lower == to_ascii_lowercase(name)
    IN IF ~IsToken(lower) THEN NoEncoding
       ELSE IF \E t \in KnownTags : KnownToken(t) = lower
            THEN Known(CHOOSE t \in KnownTags : KnownToken(t) = lower)
            ELSE Other(lower)

EncodingToken(enc) ==
    IF enc.tag \in KnownTags THEN KnownToken(enc.tag) ELSE enc.text

\* Quality: thousandths, 0..QualityOne; NoWeight when the weight is absent.
QualityOne == 1000

NoWeight == -1

Proposal(enc, w) == [encoding |-> enc, weight |-> w]

NoProposal == Proposal(NoEncoding, NoWeight)

\* q-value text "d" or "d.f", "d.ff", "d.fff" -> thousandths; -1 if the text
\* has another shape.  The range is checked by the caller.
QualityDigits(v) ==
    IF Len(v) = 1 /\ IsDigit(v[1]) THEN DigitValue(v[1]) * 1000
    ELSE IF /\ Len(v) \in 3..5
            /\ IsDigit(v[1])
            /\ v[2] = "."
            /\ \A i \in 3..Len(v) : IsDigit(v[i])
         THEN LET d(i) == IF i <= Len(v) THEN DigitValue(v[i]) ELSE 0
              IN DigitValue(v[1]) * 1000 + d(3) * 100 + d(4) * 10 + d(5)
         ELSE -1

\* The parameter after the first ';': q=<digit>[.<digit>{1,3}], whitespace
\* tolerated around '='.  [ok, weight].
parse_weight(param) ==
    LET eq == find(param, "=")
        pname == trim(SubSeq(param, 1, eq - 1))
        pval == trim(SubSeq(param, eq + 1, Len(param)))
        q == QualityDigits(pval)
    IN IF eq = 0 \/ pname # <<"q">> \/ q < 0 \/ q > QualityOne
       THEN [ok |-> FALSE, weight |-> NoWeight]
       ELSE [ok |-> TRUE, weight |-> q]

\* EncodingProposal::from_str: crate::Result<Option<EncodingProposal>>.
\* An unknown or malformed directive is Ok(None); no directive is an Err.
OkNoneProposal == [tag |-> "OkNone", prop |-> NoProposal]

OkSomeProposal(p) == [tag |-> "OkSome", prop |-> p]

from_str(s) ==
    LET semi == find(s, ";")
        name == IF semi = 0 THEN s ELSE SubSeq(s, 1, semi - 1)
        enc == EncodingFromStr(name)
        w == IF semi = 0
             THEN [ok |-> TRUE, weight |-> NoWeight]
             ELSE parse_weight(SubSeq(s, semi + 1, Len(s)))
    IN IF enc = NoEncoding \/ ~w.ok
       THEN OkNoneProposal
       ELSE OkSomeProposal(Proposal(enc, w.weight))

\* Quality -> text with no trailing zero padding: 500 -> "0.5", 1000 -> "1".
QualityText(w) ==
    LET int == <<Digits[(w \div 1000) + 1]>>
        f == w % 1000
        d1 == Digits[(f \div 100) + 1]
        d2 == Digits[((f \div 10) % 10) + 1]
        d3 == Digits[(f % 10) + 1]
    IN IF f = 0 THEN int
       ELSE IF f % 100 = 0 THEN int \o <<".", d1>>
       ELSE IF f % 10 = 0 THEN int \o <<".", d1, d2>>
       ELSE int \o <<".", d1, d2, d3>>

\* From<EncodingProposal> for HeaderValue: <identifier> or <identifier>;q=<w>.
ProposalToHeaderValue(p) ==
    IF p.weight = NoWeight
    THEN EncodingToken(p.encoding)
    ELSE EncodingToken(p.encoding) \o <<";", "q", "=">> \o QualityText(p.weight)

\* ------------------------------------------------------------- Headers
\* (crate::headers::Headers restricted to the Accept-Encoding name; spec
\* section 6.)  The stored header is the sequence of its values; NoHeader
\* when the name is absent.
NoHeader == <<>>

\* Headers::get(ACCEPT_ENCODING): Option<&HeaderValues>.
HeadersGet(h) == IF h = NoHeader THEN [some |-> FALSE, values |-> <<>>]
                 ELSE [some |-> TRUE, values |-> h]

\* Headers::insert(ACCEPT_ENCODING, value): replaces whatever was stored.
HeadersInsert(h, value) == <<value>>

\* Headers::append(ACCEPT_ENCODING, value): one more occurrence of the header.
HeadersAppend(h, value) == Append(h, value)

\* <HeaderValue as ToHeaderValues>::to_header_values: a HeaderValue always
\* converts into itself.
HeaderValueToHeaderValues(v) == [ok |-> TRUE, values |-> <<v>>]

\* ------------------------------------------------------- AcceptEncoding
AcceptEncoding(entries, wildcard) == [entries |-> entries, wildcard |-> wildcard]

new == AcceptEncoding(<<>>, FALSE)

\* Results of from_headers: crate::Result<Option<AcceptEncoding>>.
Err == [tag |-> "Err", list |-> new]

OkNone == [tag |-> "OkNone", list |-> new]

OkSome(list) == [tag |-> "OkSome", list |-> list]

\* ParseParts with an unknown directive failing the whole parse.
RECURSIVE ParsePartsStrict(_, _)
ParsePartsStrict(parts, st) ==
    IF parts = <<>> \/ st.err THEN st
    ELSE LET part == trim(Head(parts))
             r == from_str(part)
         IN IF part = <<>> THEN ParsePartsStrict(Tail(parts), st)
            ELSE IF part = <<"*">>
                 THEN ParsePartsStrict(Tail(parts), [st EXCEPT !.wildcard = TRUE])
            ELSE IF r.tag = "OkSome"
                 THEN ParsePartsStrict(Tail(parts),
                                       [st EXCEPT !.entries = Append(@, r.prop)])
            ELSE [st EXCEPT !.err = TRUE]

\* ParseParts comparing the untrimmed part with "*".
RECURSIVE ParsePartsRawStar(_, _)
ParsePartsRawStar(parts, st) ==
    IF parts = <<>> \/ st.err THEN st
    ELSE LET part == trim(Head(parts))
             r == from_str(part)
         IN IF part = <<>> THEN ParsePartsRawStar(Tail(parts), st)
            ELSE IF Head(parts) = <<"*">>
                 THEN ParsePartsRawStar(Tail(parts), [st EXCEPT !.wildcard = TRUE])
            ELSE IF r.tag = "Err" THEN [st EXCEPT !.err = TRUE]
            ELSE IF r.tag = "OkSome"
                 THEN ParsePartsRawStar(Tail(parts),
                                        [st EXCEPT !.entries = Append(@, r.prop)])
            ELSE ParsePartsRawStar(Tail(parts), st)

\* The loop body over the comma-separated parts of one header value
\* (lines 36-52); st is [err, entries, wildcard].
RECURSIVE ParseParts(_, _)
ParseParts(parts, st) ==
    IF parts = <<>> \/ st.err THEN st
    ELSE LET part == trim(Head(parts))
             r == from_str(part)
         IN IF part = <<>> THEN ParseParts(Tail(parts), st)
            ELSE IF part = <<"*">>
                 THEN ParseParts(Tail(parts), [st EXCEPT !.wildcard = TRUE])
            ELSE IF r.tag = "Err" THEN [st EXCEPT !.err = TRUE]
            ELSE IF r.tag = "OkSome"
                 THEN ParseParts(Tail(parts),
                                 [st EXCEPT !.entries = Append(@, r.prop)])
            ELSE ParseParts(Tail(parts), st)

\* ParseValues with the wildcard flag declared inside the loop over values.
RECURSIVE ParseValuesResetWildcard(_, _)
ParseValuesResetWildcard(values, st) ==
    IF values = <<>> \/ st.err THEN st
    ELSE ParseValuesResetWildcard(
             Tail(values),
             ParseParts(split(trim(Head(values)), ","),
                        [st EXCEPT !.wildcard = FALSE]))

\* The loop over the header's values (lines 35-53).
RECURSIVE ParseValues(_, _)
ParseValues(values, st) ==
    IF values = <<>> \/ st.err THEN st
    ELSE ParseValues(Tail(values),
                     ParseParts(split(trim(Head(values)), ","), st))

\* from_headers reporting a header without directives as absent.
from_headers_empty_is_none(h) ==
    LET got == HeadersGet(h)
        st == ParseValues(got.values,
                          [err |-> FALSE, entries |-> <<>>, wildcard |-> FALSE])
    IN IF ~got.some THEN OkNone
       ELSE IF st.err THEN Err
       ELSE IF st.entries = <<>> /\ ~st.wildcard THEN OkNone
       ELSE OkSome(AcceptEncoding(st.entries, st.wildcard))

from_headers(h) ==
    LET got == HeadersGet(h)
        st == ParseValues(got.values,
                          [err |-> FALSE, entries |-> <<>>, wildcard |-> FALSE])
    IN IF ~got.some THEN OkNone
       ELSE IF st.err THEN Err
       ELSE OkSome(AcceptEncoding(st.entries, st.wildcard))

\* push inserting at the front.
push_front(self, prop) == [self EXCEPT !.entries = <<prop>> \o @]

push(self, prop) == [self EXCEPT !.entries = Append(@, prop)]

wildcard(self) == self.wildcard

set_wildcard(self, w) == [self EXCEPT !.wildcard = w]

\* The loop of value() (lines 86-92): entry n is written bare when n = 0 and
\* after ", " otherwise.
RECURSIVE WriteEntries(_, _, _)
WriteEntries(entries, n, output) ==
    IF n >= Len(entries) THEN output
    ELSE LET directive == ProposalToHeaderValue(entries[n + 1])
         IN WriteEntries(entries, n + 1,
                         IF n = 0 THEN output \o directive
                         ELSE output \o <<",", " ">> \o directive)

\* value() writing the wildcard without its separator.
value_no_separator(self) ==
    LET output == WriteEntries(self.entries, 0, <<>>)
    IN IF self.wildcard THEN output \o <<"*">> ELSE output

\* value() writing ", *" whatever was written before.
value_always_separator(self) ==
    LET output == WriteEntries(self.entries, 0, <<>>)
    IN IF self.wildcard THEN output \o <<",", " ", "*">> ELSE output

value(self) ==
    LET output == WriteEntries(self.entries, 0, <<>>)
    IN IF self.wildcard
       THEN IF Len(output) = 0 THEN output \o <<"*">>
            ELSE output \o <<",", " ", "*">>
       ELSE output

\* apply() installing nothing when the rendered value is empty.
apply_skip_empty(self, h) ==
    IF value(self) = <<>> THEN h ELSE HeadersInsert(h, value(self))

apply(self, h) == HeadersInsert(h, value(self))

\* to_header_values() rendering the entries without going through value().
to_header_values_entries_only(self) ==
    [ok |-> TRUE, values |-> <<WriteEntries(self.entries, 0, <<>>)>>]

to_header_values(self) ==
    LET r == HeaderValueToHeaderValues(value(self))
    IN [ok |-> TRUE, values |-> r.values]

\* ------------------------------------------------------------- the state
VARIABLES
    accept,      \* the AcceptEncoding instance the caller holds
    owned,       \* FALSE once the instance was moved out by into_iter(self)
    headers,     \* the values stored under Accept-Encoding in the container
    last,        \* the last operation called and what it returned
    iter,        \* the live iterator over the instance's entries, if any
    pushed,      \* history: the proposals pushed since new(), in call order
    serialized,  \* history: the instance was rendered since new()
    wire         \* history: the directives the peer put on each header line

vars == <<accept, owned, headers, last, iter, pushed, serialized, wire>>

Ret(op, tag, list, vals, item) ==
    [op |-> op, tag |-> tag, list |-> list, vals |-> vals, item |-> item]

Unit(op) == Ret(op, "Unit", new, <<>>, NoProposal)

NoIter == [kind |-> "none", rest |-> <<>>, seen |-> <<>>]

\* The proposals callers push: a bare known encoding, a known encoding with
\* a weight, and an extension token with a three-digit weight.
PushSet ==
    { Proposal(Known("Gzip"), NoWeight),
      Proposal(Known("Brotli"), 800),
      Proposal(Other(<<"x", "-", "f", "o", "o">>), 5) }

\* The directives a peer sends, each with what it stands for: an entry, the
\* wildcard, a blank piece, or a directive that is to be dropped.
Pieces == <<
    [text |-> <<"g", "z", "i", "p">>,
     kind |-> "entry", prop |-> Proposal(Known("Gzip"), NoWeight)],
    [text |-> <<" ", "b", "r", ";", "q", "=", "0", ".", "8">>,
     kind |-> "entry", prop |-> Proposal(Known("Brotli"), 800)],
    [text |-> <<"*">>,
     kind |-> "star", prop |-> NoProposal],
    [text |-> <<" ", "*", " ">>,
     kind |-> "star", prop |-> NoProposal],
    [text |-> <<>>,
     kind |-> "blank", prop |-> NoProposal],
    [text |-> <<" ", "\t">>,
     kind |-> "blank", prop |-> NoProposal],
    [text |-> <<"b", "o", "g", "u", "s", "-", "t", "o", "k", "e", "n", ";", "w", "e", "i", "r", "d", "=", "1">>,
     kind |-> "dropped", prop |-> NoProposal],
    [text |-> <<"g", "z", "i", "p", ";", "q", "=", "1", ".", "5">>,
     kind |-> "dropped", prop |-> NoProposal],
    [text |-> <<"D", "e", "f", "l", "a", "t", "e", ";", "q", "=", "0", ".", "5", "0">>,
     kind |-> "entry", prop |-> Proposal(Known("Deflate"), 500)],
    [text |-> <<"g", " ", "z", "i", "p">>,
     kind |-> "dropped", prop |-> NoProposal],
    [text |-> <<"b", "r", ";", "q", "=", "x">>,
     kind |-> "dropped", prop |-> NoProposal]>>

PieceIds == DOMAIN Pieces

\* One header line: the texts of the pieces ps joined by ','.
RECURSIVE JoinPieces(_)
JoinPieces(ps) ==
    IF ps = <<>> THEN <<>>
    ELSE IF Len(ps) = 1 THEN Pieces[ps[1]].text
    ELSE Pieces[ps[1]].text \o <<",">> \o JoinPieces(Tail(ps))

\* Pieces the peer has sent so far, over all lines, in order.
Sent == concat(wire)

Init ==
    /\ accept = new
    /\ owned = TRUE
    /\ headers = NoHeader
    /\ last = Unit("new")
    /\ iter = NoIter
    /\ pushed = <<>>
    /\ serialized = FALSE
    /\ wire = <<>>

\* let mut accept = AcceptEncoding::new();
New ==
    /\ accept' = new
    /\ owned' = TRUE
    /\ last' = Unit("new")
    /\ iter' = NoIter
    /\ pushed' = <<>>
    /\ serialized' = FALSE
    /\ UNCHANGED <<headers, wire>>

\* Push refusing to change an instance that was rendered.
PushFrozen ==
    /\ owned
    /\ Len(accept.entries) < MaxEntries
    /\ \E prop \in PushSet :
        /\ accept' = IF serialized THEN accept ELSE push(accept, prop)
        /\ pushed' = IF serialized THEN pushed ELSE Append(pushed, prop)
        /\ last' = Ret("push", "Unit", new, <<>>, prop)
    /\ iter' = NoIter
    /\ UNCHANGED <<owned, headers, serialized, wire>>

\* accept.push(prop): needs &mut self, so no iterator borrows the instance.
Push ==
    /\ owned
    /\ Len(accept.entries) < MaxEntries
    /\ \E prop \in PushSet :
        /\ accept' = push(accept, prop)
        /\ pushed' = Append(pushed, prop)
        /\ last' = Ret("push", "Unit", new, <<>>, prop)
    /\ iter' = NoIter
    /\ UNCHANGED <<owned, headers, serialized, wire>>

\* accept.set_wildcard(w)
SetWildcard ==
    /\ owned
    /\ \E w \in BOOLEAN : accept' = set_wildcard(accept, w)
    /\ last' = Unit("set_wildcard")
    /\ iter' = NoIter
    /\ UNCHANGED <<owned, headers, pushed, serialized, wire>>

\* accept.value()
Value ==
    /\ owned
    /\ last' = Ret("value", "Value", new, <<value(accept)>>, NoProposal)
    /\ serialized' = TRUE
    /\ UNCHANGED <<accept, owned, headers, iter, pushed, wire>>

\* accept.apply(&mut headers)
Apply ==
    /\ owned
    /\ headers' = apply(accept, headers)
    /\ last' = Unit("apply")
    /\ serialized' = TRUE
    /\ UNCHANGED <<accept, owned, iter, pushed, wire>>

\* accept.to_header_values()
ToHeaderValues ==
    /\ owned
    /\ LET r == to_header_values(accept)
       IN last' = Ret("to_header_values", IF r.ok THEN "Ok" ELSE "Err",
                      new, r.values, NoProposal)
    /\ serialized' = TRUE
    /\ UNCHANGED <<accept, owned, headers, iter, pushed, wire>>

\* AcceptEncoding::from_headers(headers)
FromHeaders ==
    /\ LET r == from_headers(headers)
       IN last' = Ret("from_headers", r.tag, r.list, <<>>, NoProposal)
    /\ UNCHANGED <<accept, owned, headers, iter, pushed, serialized, wire>>

\* The peer adds one Accept-Encoding line made of some directives.
Receive ==
    /\ Len(headers) < MaxLines
    /\ \E n \in 1..(MaxPieces - Len(Sent)) : \E ps \in [1..n -> PieceIds] :
        /\ headers' = HeadersAppend(headers, JoinPieces(ps))
        /\ wire' = Append(wire, ps)
    /\ last' = Unit("append")
    /\ UNCHANGED <<accept, owned, iter, pushed, serialized>>

\* accept.iter() / (&accept).into_iter()
Iter ==
    /\ owned
    /\ iter' = [kind |-> "iter", rest |-> accept.entries, seen |-> <<>>]
    /\ last' = Unit("iter")
    /\ UNCHANGED <<accept, owned, headers, pushed, serialized, wire>>

\* accept.iter_mut() / (&mut accept).into_iter()
IterMut ==
    /\ owned
    /\ iter' = [kind |-> "iter_mut", rest |-> accept.entries, seen |-> <<>>]
    /\ last' = Unit("iter_mut")
    /\ UNCHANGED <<accept, owned, headers, pushed, serialized, wire>>

\* accept.into_iter(): the instance is moved into the iterator.
IntoIter ==
    /\ owned
    /\ owned' = FALSE
    /\ iter' = [kind |-> "into_iter", rest |-> accept.entries, seen |-> <<>>]
    /\ last' = Unit("into_iter")
    /\ UNCHANGED <<accept, headers, pushed, serialized, wire>>

\* Iterator::next on the live iterator: self.inner.next()
IterNext ==
    /\ iter.kind # "none"
    /\ IF iter.rest = <<>>
       THEN /\ last' = Ret("next", "None", new, <<>>, NoProposal)
            /\ iter' = iter
       ELSE /\ last' = Ret("next", "Some", new, <<>>, Head(iter.rest))
            /\ iter' = [iter EXCEPT !.rest = Tail(@),
                                    !.seen = Append(@, Head(iter.rest))]
    /\ UNCHANGED <<accept, owned, headers, pushed, serialized, wire>>

\* Building a header and reading it back.
Next ==
    \/ New
    \/ Push
    \/ SetWildcard
    \/ Value
    \/ Apply
    \/ ToHeaderValues
    \/ FromHeaders

Spec == Init /\ [][Next]_vars

\* Parsing what a peer sent.
NextParse ==
    \/ Receive
    \/ FromHeaders

SpecParse == Init /\ [][NextParse]_vars

\* Building a list and traversing it.
NextIter ==
    \/ New
    \/ Push
    \/ SetWildcard
    \/ Iter
    \/ IterMut
    \/ IntoIter
    \/ IterNext

SpecIter == Init /\ [][NextIter]_vars

\* ------------------------------------------------------------ properties

\* What the directives ps stand for: the proposals of the entry pieces, in
\* the order sent.
RECURSIVE ExpectedEntries(_)
ExpectedEntries(ps) ==
    IF ps = <<>> THEN <<>>
    ELSE IF Pieces[Head(ps)].kind = "entry"
         THEN <<Pieces[Head(ps)].prop>> \o ExpectedEntries(Tail(ps))
         ELSE ExpectedEntries(Tail(ps))

SentKinds == {Pieces[Sent[i]].kind : i \in DOMAIN Sent}

\* The texts ts joined by sep.
RECURSIVE JoinWith(_, _)
JoinWith(ts, sep) ==
    IF ts = <<>> THEN <<>>
    ELSE IF Len(ts) = 1 THEN ts[1]
    ELSE JoinWith(SubSeq(ts, 1, Len(ts) - 1), sep) \o sep \o ts[Len(ts)]

Gzip == Proposal(Known("Gzip"), NoWeight)

BrotliQ08 == Proposal(Known("Brotli"), 800)

\* C1: round trip -- when the container holds what apply() of the instance
\* installs, from_headers() returns Ok(Some(list)) with the instance's
\* entries in the same order and the instance's wildcard flag.
RoundTrip ==
    (last.op = "from_headers" /\ headers = apply(accept, NoHeader))
        => /\ last.tag = "OkSome"
           /\ last.list.entries = accept.entries
           /\ last.list.wildcard = accept.wildcard

RoundTripWitness ==
    /\ last.op = "from_headers"
    /\ serialized
    /\ headers = apply(accept, NoHeader)
    /\ accept = AcceptEncoding(<<BrotliQ08, Gzip>>, TRUE)
    /\ last.list = accept

\* C2: a bad identifier, an unknown parameter, a malformed or out-of-range
\* quality never makes from_headers fail: the result is Ok(Some(list)) whose
\* entries are exactly the valid directives, in the order sent.
UnknownDirectiveTolerance ==
    /\ last.tag # "Err"
    /\ (last.op = "from_headers" /\ headers # NoHeader)
        => /\ last.tag = "OkSome"
           /\ last.list.entries = ExpectedEntries(Sent)

\* "gzip, bogus-token;weird=1, br;q=0.8" on one line gives [gzip, br;q=0.8].
UnknownDirectiveWitness ==
    /\ last.op = "from_headers"
    /\ wire = << <<1, 7, 2>> >>
    /\ last.tag = "OkSome"
    /\ last.list.entries = <<Gzip, BrotliQ08>>

\* C3: from_headers returns Ok(None) exactly when the header is absent; a
\* header whose values hold only blanks and commas gives Ok(Some(list)) with
\* no entries and no wildcard.
AbsenceVsEmptiness ==
    last.op = "from_headers"
        => /\ (last.tag = "OkNone" <=> headers = NoHeader)
           /\ (headers # NoHeader /\ SentKinds \subseteq {"blank"})
                => (last.tag = "OkSome" /\ last.list = new)

AbsenceVsEmptinessWitness ==
    /\ last.op = "from_headers"
    /\ Len(headers) = 2
    /\ Len(Sent) = 3
    /\ SentKinds = {"blank"}
    /\ last.tag = "OkSome"
    /\ last.list = new

\* C4: the wildcard flag is set exactly when some trimmed piece, on any line,
\* is "*"; the "*" pieces are never among the entries.
WildcardIsolation ==
    (last.op = "from_headers" /\ headers # NoHeader)
        => /\ last.list.wildcard = ("star" \in SentKinds)
           /\ Len(last.list.entries) =
                  Cardinality({i \in DOMAIN Sent : Pieces[Sent[i]].kind = "entry"})
           /\ \A i \in DOMAIN last.list.entries :
                  EncodingToken(last.list.entries[i].encoding) # <<"*">>

\* "gzip, * " followed by a line "*" gives wildcard = true, entries = [gzip].
WildcardIsolationWitness ==
    /\ last.op = "from_headers"
    /\ wire = << <<1, 4>>, <<3>> >>
    /\ last.list = AcceptEncoding(<<Gzip>>, TRUE)

\* C5: several header lines parse like the one line that joins them with
\* commas, and the entries of an earlier line come before those of a later.
LinesConcatenate ==
    (last.op = "from_headers" /\ headers # NoHeader)
        => /\ OkSome(last.list) = from_headers(<<JoinWith(headers, <<",">>)>>)
           /\ last.tag = "OkSome"
           /\ last.list.entries =
                  concat([i \in DOMAIN headers |->
                              from_headers(<<headers[i]>>).list.entries])

\* Lines "gzip" and " br;q=0.8" give [gzip, br;q=0.8].
LinesConcatenateWitness ==
    /\ last.op = "from_headers"
    /\ wire = << <<1>>, <<2>> >>
    /\ last.list.entries = <<Gzip, BrotliQ08>>

\* C6: value() is the entries' tokens in order joined by ", ", with "*" as
\* one more last token when the wildcard is set; no entries and no wildcard
\* render to the empty text, no entries and the wildcard to "*".
RenderTokens(list) ==
    [i \in DOMAIN list.entries |-> ProposalToHeaderValue(list.entries[i])]
        \o (IF list.wildcard THEN << <<"*">> >> ELSE <<>>)

RenderForm ==
    last.op = "value"
        => /\ last.vals = <<JoinWith(RenderTokens(accept), <<",", " ">>)>>
           /\ (accept = new => last.vals = << <<>> >>)
           /\ (accept = AcceptEncoding(<<>>, TRUE) => last.vals = << <<"*">> >>)

RenderFormWitness ==
    /\ last.op = "value"
    /\ accept = AcceptEncoding(<<Gzip, BrotliQ08>>, TRUE)
    /\ last.vals = << <<"g", "z", "i", "p", ",", " ",
                        "b", "r", ";", "q", "=", "0", ".", "8", ",", " ", "*">> >>

InsertionOrder ==
    /\ accept.entries = pushed
    /\ iter.kind # "none" => iter.seen \o iter.rest = accept.entries
    /\ last.op \in {"iter", "iter_mut", "into_iter"}
        => (iter.seen = <<>> /\ iter.rest = accept.entries)
    /\ (last.op = "next" /\ last.tag = "Some")
        => (iter.seen # <<>> /\ last.item = accept.entries[Len(iter.seen)])
    /\ (last.op = "next" /\ last.tag = "None") => iter.seen = accept.entries

\* A heavier entry pushed after a lighter one stays behind it; the iterator
\* has yielded both and reported the end.
InsertionOrderWitness ==
    /\ accept.entries = <<Proposal(Other(<<"x", "-", "f", "o", "o">>), 5), BrotliQ08>>
    /\ iter.kind = "iter_mut"
    /\ last.op = "next"
    /\ last.tag = "None"
    /\ iter.seen = accept.entries

\* C9: to_header_values() never fails, and for a non-empty render it yields
\* exactly one value, the one value() returns.
HeaderValueEmission ==
    last.op = "to_header_values"
        => /\ last.tag = "Ok"
           /\ value(accept) # <<>> => last.vals = <<value(accept)>>

HeaderValueEmissionWitness ==
    /\ last.op = "to_header_values"
    /\ accept = AcceptEncoding(<<Gzip>>, TRUE)
    /\ last.vals = << <<"g", "z", "i", "p", ",", " ", "*">> >>

\* C10: apply() always leaves a header in the container and the instance
\* unchanged, and from_headers() right after apply() returns Ok(Some(list)).
ApplyInstallsHeader ==
    [][/\ last'.op = "apply" => (headers' # NoHeader /\ accept' = accept)
       /\ (last.op = "apply" /\ last'.op = "from_headers")
            => last'.tag = "OkSome"]_vars

\* The empty list, rendered to the empty text, applied and read back.
ApplyInstallsHeaderWitness ==
    /\ last.op = "from_headers"
    /\ accept = new
    /\ serialized
    /\ headers = << <<>> >>
    /\ last.tag = "OkSome"
    /\ last.list = new

====
